---- MODULE Spec2Model ----
(***************************************************************************)
(* A model of weather_fetcher.py: the astronomical-field sanitizer          *)
(* (clean_astronomical_data), the response normalizer                       *)
(* (process_weather_data), the per-city fetch (fetch_weather_for_city) and  *)
(* the run (main and the __main__ block).                                   *)
(*                                                                         *)
(* JSON values are tagged records [t, s, n]: a string is a sequence of      *)
(* one-character strings, so that lower(), startswith() and the membership  *)
(* test are computed character by character.                                *)
(***************************************************************************)
EXTENDS Naturals, Sequences, FiniteSets, TLC

VARIABLES
    pc,                 \* the position of the program
    astro_data,         \* clean_astronomical_data: its argument
    cleaned,            \* clean_astronomical_data: its outcome
    raw_data,           \* process_weather_data: the document it is given
    once,               \* the document after one application
    twice,              \* the document after a second application
    dir_exists,         \* os.path.exists(SAVE_DIR)
    index,              \* main: the loop index (1-based), 0 before the loop
    calls,              \* the cities fetch_weather_for_city was called with
    successful_cities,  \* main: successful_cities
    failed_cities,      \* main: failed_cities
    written,            \* fetch: the names of the files the current call has written
    response,           \* fetch: what requests.get / raise_for_status / json produced
    weather_data,       \* fetch: the outcome of process_weather_data, or NotSet
    report,             \* fetch: the kind of message printed for the city
    result,             \* fetch: the returned value
    raised,             \* the classes of the exception propagating, {} when none
    exit_status         \* {the status the process exited with}, {} before

cleanVars == <<astro_data, cleaned>>
normVars == <<raw_data, once, twice>>
runVars == <<dir_exists, index, calls, successful_cities, failed_cities, written,
             response, weather_data, report, result, raised, exit_status>>
vars == <<pc, cleanVars, normVars, runVars>>

-----------------------------------------------------------------------------
(* Bounds of the model *)

\* strings enumerated over Chars have at most MaxLen characters
MaxLen == 3
\* a forecast document holds at most MaxDays forecast days
MaxDays == 2

-----------------------------------------------------------------------------
(* JSON values *)

None == [t |-> "none", s |-> <<>>, n |-> 0]
Str(s) == [t |-> "str", s |-> s, n |-> 0]
Num(n) == [t |-> "num", s |-> <<>>, n |-> n]
Bool(b) == [t |-> "bool", s |-> <<>>, n |-> IF b THEN 1 ELSE 0]

\* a dict with no keys
EmptyDict == [k \in {} |-> None]

\* d with d[k] = v (dict assignment)
Put(d, k, v) == [x \in DOMAIN d \cup {k} |-> IF x = k THEN v ELSE d[x]]

\* d without the key k
Remove(d, k) == [x \in DOMAIN d \ {k} |-> d[x]]

\* str.lower() on one character
LowerChar(c) ==
    CASE c = "A" -> "a" [] c = "B" -> "b" [] c = "C" -> "c" [] c = "D" -> "d"
      [] c = "E" -> "e" [] c = "F" -> "f" [] c = "G" -> "g" [] c = "H" -> "h"
      [] c = "I" -> "i" [] c = "J" -> "j" [] c = "K" -> "k" [] c = "L" -> "l"
      [] c = "M" -> "m" [] c = "N" -> "n" [] c = "O" -> "o" [] c = "P" -> "p"
      [] c = "Q" -> "q" [] c = "R" -> "r" [] c = "S" -> "s" [] c = "T" -> "t"
      [] c = "U" -> "u" [] c = "V" -> "v" [] c = "W" -> "w" [] c = "X" -> "x"
      [] c = "Y" -> "y" [] c = "Z" -> "z" [] OTHER -> c

\* str.lower()
lower(s) == [i \in 1..Len(s) |-> LowerChar(s[i])]

\* a mutant of startswith_no: the prefix "no" without the space
startswith_no_nospace(s) == Len(s) >= 2 /\ s[1] = "n" /\ s[2] = "o"

\* s.startswith('no ')
startswith_no(s) == Len(s) >= 3 /\ s[1] = "n" /\ s[2] = "o" /\ s[3] = " "

\* the list literal of line 66
no_data_literals ==
    { <<"n","o"," ","m","o","o","n","r","i","s","e">>,
      <<"n","o"," ","m","o","o","n","s","e","t">>,
      <<"n","o"," ","s","u","n","r","i","s","e">>,
      <<"n","o"," ","s","u","n","s","e","t">>,
      <<"n","u","l","l">>,
      <<"n","o","n","e">> }

\* a mutant of Falsy: only the empty string counts as no value
Falsy_only_empty(v) == v.t = "str" /\ v.s = <<>>

\* Python truthiness: `not value`
Falsy(v) ==
    \/ v.t = "none"
    \/ v.t = "str" /\ v.s = <<>>
    \/ v.t \in {"num", "bool"} /\ v.n = 0

time_fields == <<"moonrise", "moonset", "sunrise", "sunset">>
TimeFieldSet == {time_fields[i] : i \in 1..Len(time_fields)}

\* astro_data.get(field, '')
Get(astro, field) == IF field \in DOMAIN astro THEN astro[field] ELSE Str(<<>>)

\* value.lower() raises AttributeError on a value that is no string; the
\* test is only reached when `not value` is false (the `or` short-circuits)
LowerRaises(v) == ~Falsy(v) /\ v.t # "str"

\* the condition of lines 64-66, for a value on which it does not raise
IsNoData(v) ==
    \/ Falsy(v)
    \/ startswith_no(lower(v.s))
    \/ lower(v.s) \in no_data_literals

\* the outcome of a call: the exception it raised ("" when none) and,
\* when it returned, the value
Returned(v) == [exc |-> "", value |-> v]
Raised(e) == [exc |-> e, value |-> EmptyDict]

\* lines 45-76
clean_astronomical_data(astro) ==
    IF \E i \in 1..Len(time_fields) : LowerRaises(Get(astro, time_fields[i]))
    THEN Raised("AttributeError")
    ELSE Returned(
           [k \in DOMAIN astro \cup TimeFieldSet |->
              IF k \in TimeFieldSet
              THEN (IF IsNoData(Get(astro, k)) THEN None ELSE Get(astro, k))
              ELSE astro[k]])

-----------------------------------------------------------------------------
(* Strings the model draws from *)

Chars == {"n", "N", "o", "O", " ", "u", "l", "e"}

RECURSIVE StringsUpTo(_)
StringsUpTo(n) ==
    IF n = 0 THEN {<<>>}
    ELSE LET shorter == StringsUpTo(n - 1)
         IN  shorter \cup {Append(s, c) : s \in {t \in shorter : Len(t) = n - 1},
                                          c \in Chars}

SampleStrings ==
    { <<"N","o"," ","m","o","o","n","r","i","s","e">>,
      <<"N","o"," ","m","o","o","n","s","e","t">>,
      <<"n","o"," ","s","u","n","r","i","s","e">>,
      <<"N","O"," ","S","U","N","S","E","T">>,
      <<"N","o"," ","d","a","t","a">>,
      <<"N","U","L","L">>, <<"n","u","l","l">>, <<"N","u","l","l">>,
      <<"N","o","n","e">>, <<"n","o","n","e">>, <<"N","O","N","E">>,
      <<"n","o","n","e"," ">>, <<"n","u","l","l","s">>,
      <<"n","o","t","h","i","n","g">>, <<"N","o","v"," ","5">>,
      <<"0","6",":","1","2"," ","A","M">>,
      <<"0","7",":","4","5"," ","P","M">> }

ValidTime == Str(<<"0","6",":","1","2"," ","A","M">>)
OtherTime == Str(<<"0","7",":","4","5"," ","P","M">>)
NoMoonrise == Str(<<"N","o"," ","m","o","o","n","r","i","s","e">>)
NoMoonset == Str(<<"N","o"," ","m","o","o","n","s","e","t">>)
FullMoon == Str(<<"F","u","l","l"," ","M","o","o","n">>)

StringValues == {Str(s) : s \in StringsUpTo(MaxLen) \cup SampleStrings}
NonStringValues == {None, Num(0), Num(5), Bool(FALSE), Bool(TRUE)}

\* astronomical records the sanitizer's inputs are built from
BaseRecords ==
    { EmptyDict,
      [moonrise |-> ValidTime, moonset |-> OtherTime, sunrise |-> ValidTime,
       sunset |-> OtherTime, moon_phase |-> FullMoon, moon_illumination |-> Num(87)],
      [moonrise |-> NoMoonrise, moonset |-> NoMoonset, sunrise |-> ValidTime,
       sunset |-> OtherTime, moon_phase |-> FullMoon],
      [sunrise |-> ValidTime, sunset |-> Str(<<>>), moon_illumination |-> Num(0),
       is_moon_up |-> Num(1), moon_phase |-> Str(<<"N","o"," ","m","o","o","n">>)] }

-----------------------------------------------------------------------------
(* Values of the variables a specification does not use *)

NotSet == [exc |-> "unset", value |-> EmptyDict]
\* exit_status before sys.exit is reached
NoStatus == {}
NoResponse == [kind |-> "none", classes |-> {}, status |-> 0, payload |-> None]

IdleClean == astro_data = EmptyDict /\ cleaned = NotSet
IdleNorm == raw_data = EmptyDict /\ once = NotSet /\ twice = NotSet
IdleRun ==
    /\ dir_exists = FALSE
    /\ index = 0
    /\ calls = <<>>
    /\ successful_cities = <<>>
    /\ failed_cities = <<>>
    /\ written = <<>>
    /\ response = NoResponse
    /\ weather_data = NotSet
    /\ report = ""
    /\ result = FALSE
    /\ raised = {}
    /\ exit_status = NoStatus

-----------------------------------------------------------------------------
(* The sanitizer alone: every input, then one call *)

InitClean ==
    /\ pc = "clean"
    /\ \E base \in BaseRecords, f \in TimeFieldSet :
          \/ astro_data = Remove(base, f)
          \/ \E v \in StringValues \cup NonStringValues : astro_data = Put(base, f, v)
    /\ cleaned = NotSet
    /\ IdleNorm
    /\ IdleRun

Clean ==
    /\ pc = "clean"
    /\ cleaned' = clean_astronomical_data(astro_data)
    /\ pc' = "cleaned"
    /\ UNCHANGED <<astro_data, normVars, runVars>>

NextClean == Clean

SpecClean == InitClean /\ [][NextClean]_vars

-----------------------------------------------------------------------------
(* Properties of the sanitizer *)

\* the letter c in either case
EitherCase(c) ==
    CASE c = "n" -> {"n", "N"} [] c = "o" -> {"o", "O"} [] c = "u" -> {"u", "U"}
      [] c = "l" -> {"l", "L"} [] c = "e" -> {"e", "E"} [] OTHER -> {c}

\* s is the word w written in any letter case
InAnyCase(s, w) == Len(s) = Len(w) /\ \A i \in 1..Len(w) : s[i] \in EitherCase(w[i])

\* the values the contract of the sanitizer names as "no data"
SentinelString(s) ==
    \/ s = <<>>
    \/ Len(s) >= 3 /\ s[1] \in EitherCase("n") /\ s[2] \in EitherCase("o") /\ s[3] = " "
    \/ InAnyCase(s, <<"n","u","l","l">>)
    \/ InAnyCase(s, <<"n","o","n","e">>)

TimeFieldsAreStrings(astro) ==
    \A f \in TimeFieldSet \cap DOMAIN astro : astro[f].t = "str"

\* C1: for a record whose time fields are strings or missing,
\* clean_astronomical_data returns None for a time field that is missing, empty,
\* starts with "no " in any letter case or equals "null" or "none" in any letter
\* case; every other string is returned unchanged, and so is every key that is
\* not a time field.
C1_SanitizerContract ==
    (pc = "cleaned" /\ TimeFieldsAreStrings(astro_data)) =>
        /\ cleaned.exc = ""
        /\ DOMAIN cleaned.value = DOMAIN astro_data \cup TimeFieldSet
        /\ \A f \in TimeFieldSet :
              IF f \notin DOMAIN astro_data \/ SentinelString(astro_data[f].s)
              THEN cleaned.value[f] = None
              ELSE cleaned.value[f] = astro_data[f]
        /\ \A k \in DOMAIN astro_data \ TimeFieldSet : cleaned.value[k] = astro_data[k]

\* a record with a mixed-case "no " value, a missing field, an empty value,
\* a time that passes through and another key that looks like a sentinel
\* has been cleaned
C1_Witness ==
    /\ pc = "cleaned"
    /\ DOMAIN astro_data =
          {"moonrise", "sunrise", "sunset", "moon_illumination", "is_moon_up", "moon_phase"}
    /\ astro_data["moonrise"] = Str(<<"N", "O", " ">>)
    /\ astro_data["sunset"] = Str(<<>>)
    /\ cleaned.exc = ""
    /\ cleaned.value["moonrise"] = None
    /\ cleaned.value["moonset"] = None
    /\ cleaned.value["sunset"] = None
    /\ cleaned.value["sunrise"] = ValidTime
    /\ cleaned.value["moon_phase"] = Str(<<"N","o"," ","m","o","o","n">>)

\* C2: a time field that holds a number or another non-string value is
\* returned unchanged, and the call does not raise.
C2_NonStringPassesThrough ==
    pc = "cleaned" =>
        \A f \in TimeFieldSet \cap DOMAIN astro_data :
            astro_data[f].t \in {"num", "bool"} =>
                cleaned.exc = "" /\ cleaned.value[f] = astro_data[f]

-----------------------------------------------------------------------------
(* The response normalizer *)

\* line 91
HasForecastDays(doc) ==
    "forecast" \in DOMAIN doc /\ "forecastday" \in DOMAIN doc["forecast"]

\* lines 93-94, for a day whose astro block the sanitizer accepts
CleanDay(day) ==
    IF "astro" \in DOMAIN day
    THEN Put(day, "astro", clean_astronomical_data(day["astro"]).value)
    ELSE day

\* lines 78-96
process_weather_data(doc) ==
    IF ~HasForecastDays(doc) THEN Returned(doc)
    ELSE LET days == doc["forecast"]["forecastday"]
         IN  IF \E i \in 1..Len(days) :
                    /\ "astro" \in DOMAIN days[i]
                    /\ clean_astronomical_data(days[i]["astro"]).exc # ""
             THEN Raised("AttributeError")
             ELSE Returned(
                    Put(doc, "forecast",
                        Put(doc["forecast"], "forecastday",
                            [i \in 1..Len(days) |-> CleanDay(days[i])])))

\* the sequences over S of length at most n
RECURSIVE SeqsUpTo(_, _)
SeqsUpTo(S, n) ==
    IF n = 0 THEN {<<>>}
    ELSE LET shorter == SeqsUpTo(S, n - 1)
         IN  shorter \cup {Append(s, x) : s \in {t \in shorter : Len(t) = n - 1},
                                          x \in S}

Location == [name |-> Str(<<"M","y","s","u","r","u">>), country |-> Str(<<"I","n","d","i","a">>)]
Current == [temp_c |-> Num(31), humidity |-> Num(60)]
Date == Str(<<"2","0","2","5","-","0","8","-","0","4">>)

\* a forecast document with the three sections and the given days
Document(days) ==
    [location |-> Location, current |-> Current, forecast |-> [forecastday |-> days]]

\* a day with the given astronomical block
DayWith(astro) == [date |-> Date, astro |-> astro]
DayWithoutAstro == [date |-> Date]

\* moon times the normalizer's documents are built from: strings only
NormValues == {ValidTime, NoMoonset, Str(<<>>)}

NormAstros ==
    LET bases == { EmptyDict,
                   [sunrise |-> ValidTime, sunset |-> Str(<<"N","O","N","E">>),
                    moon_phase |-> FullMoon, moon_illumination |-> Num(87)] }
        WithField(d, f, sel) == IF sel = None THEN d ELSE Put(d, f, sel)
    IN  { WithField(WithField(b, "moonrise", mr), "moonset", ms) :
            b \in bases, mr \in NormValues \cup {None}, ms \in NormValues \cup {None} }

NormDays == {DayWithoutAstro} \cup {DayWith(a) : a \in NormAstros}

\* the valid documents: three sections, time fields strings or absent
NormDocs ==
    {Document(days) : days \in SeqsUpTo(NormDays, MaxDays)}
      \cup {[location |-> Location, current |-> Current, forecast |-> EmptyDict]}

InitNorm ==
    /\ pc = "normalize"
    /\ raw_data \in NormDocs
    /\ once = NotSet
    /\ twice = NotSet
    /\ IdleClean
    /\ IdleRun

\* weather_data = process_weather_data(raw_data)
NormalizeOnce ==
    /\ pc = "normalize"
    /\ once' = process_weather_data(raw_data)
    /\ pc' = "once"
    /\ UNCHANGED <<raw_data, twice, cleanVars, runVars>>

\* process_weather_data applied to the document the first call returned
NormalizeTwice ==
    /\ pc = "once"
    /\ once.exc = ""
    /\ twice' = process_weather_data(once.value)
    /\ pc' = "twice"
    /\ UNCHANGED <<raw_data, once, cleanVars, runVars>>

NextNorm == NormalizeOnce \/ NormalizeTwice

SpecNorm == InitNorm /\ [][NextNorm]_vars

\* C3: process_weather_data is idempotent on valid documents: applied to its
\* own result it returns that result, every astronomical block included.
C3_Idempotent ==
    pc = "twice" => twice.exc = "" /\ twice.value = once.value

\* a document with a sentinel day and a day without an astronomical block
\* has been normalized twice, and the sentinel became None
C3_Witness ==
    /\ pc = "twice"
    /\ HasForecastDays(raw_data)
    /\ Len(raw_data["forecast"]["forecastday"]) = 2
    /\ raw_data["forecast"]["forecastday"][1] = DayWith([moonrise |-> ValidTime, moonset |-> NoMoonset])
    /\ raw_data["forecast"]["forecastday"][2] = DayWithoutAstro
    /\ once.value["forecast"]["forecastday"][1]["astro"]["moonset"] = None
    /\ once.value["forecast"]["forecastday"][1]["astro"]["moonrise"] = ValidTime
    /\ once.value # raw_data
    /\ twice.value = once.value

-----------------------------------------------------------------------------
(* Configuration: lines 17-35 *)

CITIES ==
    << <<"B","e","n","g","a","l","u","r","u">>,
       <<"M","u","m","b","a","i">>,
       <<"M","y","s","u","r","u">>,
       <<"N","e","w"," ","D","e","l","h","i">>,
       <<"M","a","n","d","y","a">>,
       <<"M","a","d","i","k","e","r","i">>,
       <<"H","a","s","s","a","n">>,
       <<"B","h","a","g","a","m","a","n","d","a","l","a">>,
       <<"G","h","a","z","i","a","b","a","d">> >>

\* city_name.replace(' ', '_').replace('-', '_'): line 156
safe_city_name(city_name) ==
    [i \in 1..Len(city_name) |->
        IF city_name[i] \in {" ", "-"} THEN "_" ELSE city_name[i]]

\* line 157
filename(city_name) ==
    safe_city_name(city_name) \o <<"_","l","a","t","e","s","t",".","j","s","o","n">>

-----------------------------------------------------------------------------
(* Exceptions: each is the set of the classes it is an instance of *)

HTTPError == {"HTTPError", "RequestException", "OSError", "Exception", "BaseException"}
ConnectionError == {"ConnectionError", "RequestException", "OSError", "Exception", "BaseException"}
ConnectTimeout ==
    {"ConnectTimeout", "ConnectionError", "Timeout", "RequestException", "OSError",
     "Exception", "BaseException"}
ReadTimeout == {"ReadTimeout", "Timeout", "RequestException", "OSError", "Exception", "BaseException"}
TooManyRedirects == {"TooManyRedirects", "RequestException", "OSError", "Exception", "BaseException"}
\* response.json() of requests 2.27 and later
RequestsJSONDecodeError ==
    {"InvalidJSONError", "RequestException", "OSError", "JSONDecodeError", "ValueError",
     "Exception", "BaseException"}
\* response.json() of earlier releases: json.JSONDecodeError itself
StdJSONDecodeError == {"JSONDecodeError", "ValueError", "Exception", "BaseException"}
KeyError == {"KeyError", "LookupError", "Exception", "BaseException"}
TypeError == {"TypeError", "Exception", "BaseException"}
AttributeError == {"AttributeError", "Exception", "BaseException"}
OSError == {"OSError", "Exception", "BaseException"}
KeyboardInterrupt == {"KeyboardInterrupt", "BaseException"}
SystemExit == {"SystemExit", "BaseException"}

\* the first except clause of `handlers` that catches an exception of these
\* classes, 0 when none does
RECURSIVE CatchFrom(_, _, _)
CatchFrom(handlers, classes, i) ==
    IF i > Len(handlers) THEN 0
    ELSE IF handlers[i] \in classes THEN i
    ELSE CatchFrom(handlers, classes, i + 1)

Catch(handlers, classes) == CatchFrom(handlers, classes, 1)

\* a mutant of fetch_handlers: without the final `except Exception`
fetch_handlers_no_catch_all ==
    <<"HTTPError", "ConnectionError", "Timeout", "RequestException", "JSONDecodeError">>

\* the except clauses of fetch_weather_for_city, in order: lines 177-200
fetch_handlers ==
    <<"HTTPError", "ConnectionError", "Timeout", "RequestException", "JSONDecodeError",
      "Exception">>

\* what each clause prints
fetch_reports ==
    <<"HTTP Error", "Connection Error", "Timeout Error", "Request Error",
      "JSON Parse Error", "Unexpected Error">>

\* the except clauses of the __main__ block: lines 295-300
main_handlers == <<"KeyboardInterrupt", "Exception">>

\* the status the process exits with when an exception of these classes
\* reaches the __main__ block; `code` is the argument of sys.exit
ExitStatus(classes, code) ==
    LET h == Catch(main_handlers, classes)
    IN  IF h = 1 THEN 2 ELSE IF h = 2 THEN 3 ELSE code

-----------------------------------------------------------------------------
(* What a request can produce *)

Failure(classes, status) ==
    [kind |-> "exception", classes |-> classes, status |-> status, payload |-> None]
Parsed(t, doc) ==
    [kind |-> "parsed", classes |-> {}, status |-> 200, payload |-> [t |-> t, doc |-> doc]]

SunAndMoon ==
    [sunrise |-> ValidTime, sunset |-> OtherTime, moonrise |-> OtherTime,
     moonset |-> ValidTime, moon_phase |-> FullMoon, moon_illumination |-> Num(87)]

\* the days of the documents a fetch receives
FetchDays ==
    { DayWithoutAstro,
      DayWith(SunAndMoon),
      DayWith(Put(SunAndMoon, "moonrise", NoMoonrise)),
      DayWith(Put(SunAndMoon, "moonset", Num(5))) }

Sections == {"location", "current", "forecast"}

\* d restricted to the keys in S
Restrict(d, S) == [k \in DOMAIN d \cap S |-> d[k]]

FetchDocs ==
    {Document(days) : days \in SeqsUpTo(FetchDays, MaxDays)}
      \cup {Restrict(Document(<<DayWith(SunAndMoon)>>), S) : S \in (SUBSET Sections) \ {Sections}}
      \cup { Put(Document(<<DayWith(SunAndMoon)>>), "forecast", EmptyDict),
             Put(Document(<<DayWith(SunAndMoon)>>), "location", Remove(Location, "name")),
             Put(Document(<<DayWith(SunAndMoon)>>), "current", Remove(Current, "temp_c")) }

Responses ==
    { Failure(ConnectionError, 0), Failure(ConnectTimeout, 0), Failure(ReadTimeout, 0),
      Failure(TooManyRedirects, 0), Failure(HTTPError, 401), Failure(HTTPError, 503),
      Failure(RequestsJSONDecodeError, 200), Failure(StdJSONDecodeError, 200),
      Parsed("array", EmptyDict), Parsed("null", EmptyDict) }
      \cup {Parsed("object", doc) : doc \in FetchDocs}

-----------------------------------------------------------------------------
(* fetch_weather_for_city: the body of its try block, lines 125-175 *)

\* a mutant of HasRequiredSections: the forecast section is not asked for
HasRequiredSections_no_forecast(doc) ==
    "location" \in DOMAIN doc /\ "current" \in DOMAIN doc

\* line 134, negated
HasRequiredSections(doc) ==
    "location" \in DOMAIN doc /\ "current" \in DOMAIN doc /\ "forecast" \in DOMAIN doc

\* what the body did: the exception it raised ({} when it returned), the
\* message it printed ("" when none), whether it wrote the file, the value of
\* weather_data (NotSet when line 139 was not reached) and the value returned
Outcome(exc, msg, wrote, data, ret) ==
    [raised |-> exc, report |-> msg, wrote |-> wrote, data |-> data, ret |-> ret]

\* lines 142-146: the exception the count of cleaned days raises
CleanedDaysRaises(data) ==
    \/ "forecast" \notin DOMAIN data
    \/ "forecastday" \notin DOMAIN data["forecast"]
    \/ \E i \in 1..Len(data["forecast"]["forecastday"]) :
          "astro" \notin DOMAIN data["forecast"]["forecastday"][i]

\* lines 165-167: the summary read after the file is saved
SummaryRaises(data) ==
    \/ "location" \notin DOMAIN data
    \/ "name" \notin DOMAIN data["location"]
    \/ "current" \notin DOMAIN data
    \/ "temp_c" \notin DOMAIN data["current"]

TryBody(resp) ==
    IF resp.kind = "exception" THEN Outcome(resp.classes, "", FALSE, NotSet, FALSE)
    ELSE IF resp.payload.t = "null" THEN Outcome(TypeError, "", FALSE, NotSet, FALSE)
    ELSE IF resp.payload.t = "array" \/ ~HasRequiredSections(resp.payload.doc)
         THEN Outcome({}, "Invalid structure", FALSE, NotSet, FALSE)
    ELSE LET data == process_weather_data(resp.payload.doc)
         IN  IF data.exc # "" THEN Outcome(AttributeError, "", FALSE, NotSet, FALSE)
             ELSE IF CleanedDaysRaises(data.value)
                  THEN Outcome(KeyError, "", FALSE, data, FALSE)
             ELSE IF SummaryRaises(data.value)
                  THEN Outcome(KeyError, "", TRUE, data, FALSE)
             ELSE Outcome({}, "SUCCESS", TRUE, data, TRUE)

\* lines 125-200: the body and the except clauses
fetch_weather_for_city(resp) ==
    LET body == TryBody(resp)
        h == Catch(fetch_handlers, body.raised)
    IN  IF body.raised = {} THEN body
        ELSE IF h = 0 THEN body
        ELSE Outcome({}, fetch_reports[h], body.wrote, body.data, FALSE)

-----------------------------------------------------------------------------
(* The run: main and the __main__ block *)

Init ==
    /\ pc = "start"
    /\ dir_exists \in BOOLEAN
    /\ index = 0
    /\ calls = <<>>
    /\ successful_cities = <<>>
    /\ failed_cities = <<>>
    /\ written = <<>>
    /\ response = NoResponse
    /\ weather_data = NotSet
    /\ report = ""
    /\ result = FALSE
    /\ raised = {}
    /\ exit_status = NoStatus
    /\ IdleClean
    /\ IdleNorm

\* the process ends with an exception of these classes reaching the __main__
\* block; `code` is the argument of sys.exit when the exception is SystemExit
Exit(classes, code) ==
    /\ raised' = classes
    /\ exit_status' = {ExitStatus(classes, code)}
    /\ pc' = "exited"

\* lines 37-43 and 243-245: the directory is there or is created
setup_directory ==
    /\ pc = "start"
    /\ dir_exists' = TRUE
    /\ index' = 1
    /\ pc' = "call"
    /\ UNCHANGED <<calls, successful_cities, failed_cities, written, response,
                   weather_data, report, result, raised, exit_status,
                   cleanVars, normVars>>

\* line 40: os.makedirs fails, and the error reaches the __main__ block
setup_directory_fails ==
    /\ pc = "start"
    /\ ~dir_exists
    /\ Exit(OSError, 0)
    /\ UNCHANGED <<dir_exists, index, calls, successful_cities, failed_cities, written,
                   response, weather_data, report, result, cleanVars, normVars>>

\* lines 127-131: main calls fetch_weather_for_city, which sends the request
Request ==
    /\ pc = "call"
    /\ calls' = Append(calls, CITIES[index])
    /\ response' \in Responses
    /\ pc' = "fetching"
    /\ UNCHANGED <<dir_exists, index, successful_cities, failed_cities, written,
                   weather_data, report, result, raised, exit_status,
                   cleanVars, normVars>>

\* lines 125-200: the rest of fetch_weather_for_city
Fetch ==
    /\ pc = "fetching"
    /\ \E out \in {fetch_weather_for_city(response)} :
       LET fn == filename(CITIES[index])
       IN  /\ written' = IF out.wrote THEN Append(written, fn) ELSE written
           /\ weather_data' = out.data
           /\ report' = out.report
           /\ result' = out.ret
           /\ IF out.raised = {}
              THEN pc' = "returned" /\ UNCHANGED <<raised, exit_status>>
              ELSE Exit(out.raised, 0)
    /\ UNCHANGED <<dir_exists, index, calls, successful_cities, failed_cities,
                   response, cleanVars, normVars>>

\* lines 248-256: the city is recorded, then the pause and the next city
Record ==
    /\ pc = "returned"
    /\ IF result
       THEN /\ successful_cities' = Append(successful_cities, CITIES[index])
            /\ UNCHANGED failed_cities
       ELSE /\ failed_cities' = Append(failed_cities, CITIES[index])
            /\ UNCHANGED successful_cities
    /\ response' = NoResponse
    /\ written' = <<>>
    /\ weather_data' = NotSet
    /\ report' = ""
    /\ result' = FALSE
    /\ IF index < Len(CITIES)
       THEN index' = index + 1 /\ pc' = "call"
       ELSE index' = index /\ pc' = "summary"
    /\ UNCHANGED <<dir_exists, calls, raised, exit_status, cleanVars, normVars>>

\* line 289: what main returns
main_returns(successful, failed) == Len(failed) = 0

\* a mutant of sys_exit_code: the run's success is ignored
sys_exit_code_always_zero(success) == 0

\* line 294
sys_exit_code(success) == IF success THEN 0 ELSE 1

\* lines 258-294: the summary, then sys.exit
Finish ==
    /\ pc = "summary"
    /\ Exit(SystemExit, sys_exit_code(main_returns(successful_cities, failed_cities)))
    /\ UNCHANGED <<dir_exists, index, calls, successful_cities, failed_cities, written,
                   response, weather_data, report, result, cleanVars, normVars>>

\* the operator interrupts the process: KeyboardInterrupt is raised where
\* the program is; inside the try block of the fetch its except clauses are
\* tried first, and when none catches it the call's frame is left
Interrupt ==
    /\ pc \in {"start", "call", "fetching", "returned", "summary"}
    /\ LET h == IF pc = "fetching" THEN Catch(fetch_handlers, KeyboardInterrupt) ELSE 0
       IN  IF h # 0
           THEN /\ report' = fetch_reports[h]
                /\ result' = FALSE
                /\ pc' = "returned"
                /\ UNCHANGED <<raised, exit_status, response, weather_data, written>>
           ELSE /\ Exit(KeyboardInterrupt, 0)
                /\ response' = NoResponse
                /\ written' = <<>>
                /\ weather_data' = NotSet
                /\ report' = ""
                /\ result' = FALSE
    /\ UNCHANGED <<dir_exists, index, calls, successful_cities, failed_cities,
                   cleanVars, normVars>>

Next ==
    \/ setup_directory
    \/ setup_directory_fails
    \/ Request
    \/ Fetch
    \/ Record
    \/ Finish
    \/ Interrupt

Spec == Init /\ [][Next]_vars

-----------------------------------------------------------------------------
(* Properties of the run *)

\* the number of times x occurs in seq
Count(seq, x) == Cardinality({i \in DOMAIN seq : seq[i] = x})

\* main reached sys.exit
Completed == pc = "exited" /\ "SystemExit" \in raised

\* the response of the current call is a parsed JSON object
ParsedObject == response.kind = "parsed" /\ response.payload.t = "object"

\* C4: no per-city failure aborts the batch: fetch_weather_for_city returns a
\* boolean and raises no exception, main calls it once for every city in list
\* order, and when the loop has ended every configured city is in exactly one
\* of successful_cities and failed_cities, once.
C4_NoFailureAbortsBatch ==
    /\ (pc = "exited" /\ index >= 1) => "Exception" \notin raised
    /\ pc = "returned" => (result \in BOOLEAN /\ raised = {})
    /\ Len(calls) <= Len(CITIES)
    /\ calls = SubSeq(CITIES, 1, Len(calls))
    /\ pc \in {"fetching", "returned"} => Len(calls) = index
    /\ (pc = "summary" \/ Completed) =>
          /\ calls = CITIES
          /\ \A i \in 1..Len(CITIES) :
                Count(successful_cities, CITIES[i]) + Count(failed_cities, CITIES[i]) = 1
          /\ Len(successful_cities) + Len(failed_cities) = Len(CITIES)

\* the loop has ended after a run in which five cities failed, the first one
\* among them
C4_Witness ==
    /\ pc = "summary"
    /\ calls = CITIES
    /\ Len(failed_cities) = 5
    /\ Len(successful_cities) = 4
    /\ failed_cities[1] = CITIES[1]
    /\ successful_cities[4] = CITIES[9]

\* C5: the exit status is 0 exactly when the run completed and every city
\* succeeded, 1 exactly when it completed and a city failed, 2 when the run
\* was interrupted (also in the middle of a fetch), 3 when another error
\* reached the __main__ block; when only city 5 fails the lists hold 8 and 1
\* cities and the status is 1.
C5_ExitStatus ==
    pc = "exited" =>
        /\ exit_status = {0} <=>
              (Completed /\ failed_cities = <<>> /\ Len(successful_cities) = Len(CITIES))
        /\ exit_status = {1} <=> (Completed /\ failed_cities # <<>>)
        /\ "KeyboardInterrupt" \in raised => exit_status = {2}
        /\ "Exception" \in raised => exit_status = {3}
        /\ (Completed /\ {failed_cities[i] : i \in DOMAIN failed_cities} = {CITIES[5]}) =>
              /\ Len(successful_cities) = 8
              /\ Len(failed_cities) = 1
              /\ exit_status = {1}

\* the run in which only city 5 failed has exited with status 1
C5_Witness ==
    /\ pc = "exited"
    /\ Completed
    /\ failed_cities = <<CITIES[5]>>
    /\ Len(successful_cities) = 8
    /\ exit_status = {1}

\* C6: a timeout of any kind, while connecting or while reading, is reported
\* as a Timeout failure and the call returns False.
C6_TimeoutReportedAsTimeout ==
    (pc = "returned" /\ response.kind = "exception" /\ "Timeout" \in response.classes) =>
        report = "Timeout Error" /\ result = FALSE

\* C7: a 2xx body that does not parse is reported by the JSON parse error
\* clause, the call returns False and writes no file.
C7_MalformedPayloadReportedAsJsonError ==
    (pc = "returned" /\ response.kind = "exception"
       /\ "JSONDecodeError" \in response.classes) =>
        report = "JSON Parse Error" /\ result = FALSE /\ written = <<>>

\* C8: a parsed response that lacks one of location, current and forecast is
\* reported as an invalid structure, and the call returns False before the
\* normalizer is applied and before the file is opened.
C8_MissingSectionRejected ==
    (pc = "returned" /\ ParsedObject /\ ~(Sections \subseteq DOMAIN response.payload.doc)) =>
        /\ report = "Invalid structure"
        /\ result = FALSE
        /\ weather_data = NotSet
        /\ written = <<>>

\* a document without its forecast section has been rejected
C8_Witness ==
    /\ pc = "returned"
    /\ ParsedObject
    /\ DOMAIN response.payload.doc = {"location", "current"}
    /\ report = "Invalid structure"
    /\ result = FALSE
    /\ written = <<>>
    /\ index = 3

\* a document the fetch's reads find complete: the list of days, the name
\* and the temperature are there, and every time field is a string
WellFormed(doc) ==
    /\ Sections \subseteq DOMAIN doc
    /\ "forecastday" \in DOMAIN doc["forecast"]
    /\ "name" \in DOMAIN doc["location"]
    /\ "temp_c" \in DOMAIN doc["current"]
    /\ \A i \in 1..Len(doc["forecast"]["forecastday"]) :
          LET day == doc["forecast"]["forecastday"][i]
          IN  "astro" \in DOMAIN day => TimeFieldsAreStrings(day["astro"])

\* C9: on a parsed response with the three sections the call normalizes the
\* document, writes the city's file and returns True, also when forecast days
\* carry no astronomical block.
C9_DaysWithoutAstroSucceed ==
    (pc = "returned" /\ ParsedObject /\ WellFormed(response.payload.doc)) =>
        /\ result = TRUE
        /\ report = "SUCCESS"
        /\ weather_data = process_weather_data(response.payload.doc)
        /\ written = <<filename(CITIES[index])>>

\* C10: a call that returns False has not written the city's file, and a call
\* that returns True has written it exactly once.
C10_FileWrittenIffSuccess ==
    pc = "returned" =>
        /\ result = FALSE => written = <<>>
        /\ result = TRUE => written = <<filename(CITIES[index])>>

====
